---- MODULE Spec2Model ----
(***************************************************************************)
(* Scene numbering of sickbeard/scene_numbering.py: the override table     *)
(* scene_numbering, the remote (XEM) cache table xem_numbering, the        *)
(* refresh markers xem_refresh, and the functions that read and write      *)
(* them.  Every function of the source is an operator over the tables it   *)
(* touches, computed statement by statement; every public function is an   *)
(* action that applies its operator and records the call and its result.   *)
(***************************************************************************)
EXTENDS Integers, Sequences, FiniteSets, TLC

VARIABLES scene_numbering, xem_numbering, xem_refresh, now, call, ret, refresh, threads

vars == <<scene_numbering, xem_numbering, xem_refresh, now, call, ret, refresh, threads>>

(***************************************************************************)
(* Bounds of the model.                                                    *)
(***************************************************************************)
MaxShow == 2          \* shows 1..MaxShow
MaxSeason == 2        \* seasons 1..MaxSeason, of either numbering
MaxEpisode == 2       \* episodes 1..MaxEpisode, of either numbering
MaxEntries == 2       \* entries of a response's data list
MaxOverrides == 2     \* rows of scene_numbering
MaxDays == 2          \* the clock runs over MaxDays days
MaxOff == 2           \* ... and is read up to MaxOff ticks after each day's start
TicksPerSec == 2      \* clock ticks per second

MAX_XEM_AGE_SECS == 86400

\* Python's None where an integer is expected (an argument, a column value).
None == -1

\* Python's None where a tuple is expected (a return value): told apart from
\* every pair and from the empty dict.
NoneResult == <<None>>

\* A key a JSON object does not hold.
Absent == << >>

Shows == 1..MaxShow
Seasons == 1..MaxSeason
Episodes == 1..MaxEpisode
Pairs == Seasons \X Episodes

\* One day in clock ticks; time.time() is a float, read here in ticks of
\* 1/TicksPerSec second.
DayTicks == MAX_XEM_AGE_SECS * TicksPerSec

\* int(x) of a float x (given in ticks): truncation to whole seconds.
int(x) == x \div TicksPerSec

\* bool(x) of a value the functions return: None is false, a tuple is true
\* unless it is empty.
Truthy(x) == IF x = NoneResult THEN FALSE ELSE Len(x) > 0

Row(indexer_id, season, episode, scene_season, scene_episode) ==
    [indexer_id |-> indexer_id, season |-> season, episode |-> episode,
     scene_season |-> scene_season, scene_episode |-> scene_episode]

\* DELETE FROM <table> where indexer_id = ? and season = ? and episode = ?
DeleteKey(table, indexer_id, season, episode) ==
    {r \in table : ~(r.indexer_id = indexer_id /\ r.season = season /\ r.episode = episode)}

\* DELETE FROM <table> where indexer_id = ?
DeleteShow(table, indexer_id) == {r \in table : r.indexer_id # indexer_id}

\* SELECT ... WHERE indexer_id = ? and season = ? and episode = ?
SelectKey(table, indexer_id, season, episode) ==
    {r \in table : r.indexer_id = indexer_id /\ r.season = season /\ r.episode = episode}

\* SELECT ... WHERE indexer_id = ? and scene_season = ? and scene_episode = ?
SelectScene(table, indexer_id, sceneSeason, sceneEpisode) ==
    {r \in table : r.indexer_id = indexer_id /\ r.scene_season = sceneSeason
                   /\ r.scene_episode = sceneEpisode}

\* SELECT ... WHERE indexer_id = ?
SelectShow(table, indexer_id) == {r \in table : r.indexer_id = indexer_id}

\* The rows of a result set as the sequence ORDER BY season, episode yields.
RECURSIVE OrderBySeasonEpisode(_)
OrderBySeasonEpisode(rows) ==
    IF rows = {} THEN << >>
    ELSE LET first == CHOOSE r \in rows :
                         \A q \in rows : r.season < q.season
                                         \/ (r.season = q.season /\ r.episode <= q.episode)
         IN <<first>> \o OrderBySeasonEpisode(rows \ {first})

\* result[key] = value of a Python dict.
DictSet(d, key, value) ==
    [k \in DOMAIN d \cup {key} |-> IF k = key THEN value ELSE d[k]]

EmptyDict == [k \in {} |-> None]

\* The loop "for row in rows: result[(season, episode)] = (scene_season, scene_episode)".
RECURSIVE DictOfRows(_, _)
DictOfRows(rows, result) ==
    IF rows = << >> THEN result
    ELSE DictOfRows(Tail(rows),
                    DictSet(result, <<Head(rows).season, Head(rows).episode>>,
                            <<Head(rows).scene_season, Head(rows).scene_episode>>))

(***************************************************************************)
(* The override store.                                                     *)
(***************************************************************************)
\* find_scene_numbering with the pair it returns for a key that has no
\* override turned round: C3 does not hold of it.
find_scene_numbering_flipped(sn, indexer_id, season, episode) ==
    IF indexer_id = None \/ season = None \/ episode = None
    THEN <<season, episode>>
    ELSE LET rows == SelectKey(sn, indexer_id, season, episode)
         IN IF rows # {}
            THEN LET r == CHOOSE r \in rows : TRUE
                 IN <<r.scene_season, r.scene_episode>>
            ELSE <<episode, season>>

find_scene_numbering(sn, indexer_id, season, episode) ==
    IF indexer_id = None \/ season = None \/ episode = None
    THEN <<season, episode>>
    ELSE LET rows == SelectKey(sn, indexer_id, season, episode)
         IN IF rows # {}
            THEN LET r == CHOOSE r \in rows : TRUE
                 IN <<r.scene_season, r.scene_episode>>
            ELSE <<season, episode>>

get_scene_numbering_for_show(sn, indexer_id) ==
    IF indexer_id = None THEN EmptyDict
    ELSE DictOfRows(OrderBySeasonEpisode(SelectShow(sn, indexer_id)), EmptyDict)

\* set_scene_numbering with the two scene columns exchanged in the INSERT:
\* C1 does not hold of it.
set_scene_numbering_swapped(sn, indexer_id, season, episode, sceneSeason, sceneEpisode) ==
    IF indexer_id = None \/ season = None \/ episode = None
    THEN sn
    ELSE LET deleted == DeleteKey(sn, indexer_id, season, episode)
         IN IF sceneSeason # None /\ sceneEpisode # None
            THEN deleted \cup {Row(indexer_id, season, episode, sceneEpisode, sceneSeason)}
            ELSE deleted

\* set_scene_numbering without its test for None: C9 does not hold of it.
set_scene_numbering_unguarded(sn, indexer_id, season, episode, sceneSeason, sceneEpisode) ==
    LET deleted == DeleteKey(sn, indexer_id, season, episode)
    IN IF sceneSeason # None /\ sceneEpisode # None
       THEN deleted \cup {Row(indexer_id, season, episode, sceneSeason, sceneEpisode)}
       ELSE deleted

set_scene_numbering(sn, indexer_id, season, episode, sceneSeason, sceneEpisode) ==
    IF indexer_id = None \/ season = None \/ episode = None
    THEN sn
    ELSE LET deleted == DeleteKey(sn, indexer_id, season, episode)
         IN IF sceneSeason # None /\ sceneEpisode # None
            THEN deleted \cup {Row(indexer_id, season, episode, sceneSeason, sceneEpisode)}
            ELSE deleted

(***************************************************************************)
(* The remote endpoints.  A response is what requests.get(url).json()      *)
(* gives: it raises ("raise": a network error or an unparseable body), or  *)
(* it is None ("none"), the empty string ("emptystr"), another false value *)
(* such as {} ("empty"), or an object ("dict") with a result string and a  *)
(* data list.  An entry of the list holds 'tvdb', 'scene' and 'scene_2',   *)
(* each a (season, episode) pair or Absent.  An object holds a 'message'   *)
(* unless it is made by NoMessage.                                         *)
(***************************************************************************)
Response(kind, result, data) ==
    [kind |-> kind, result |-> result, data |-> data, message |-> TRUE]

\* The object without its 'message' key.
NoMessage(response) == [response EXCEPT !.message = FALSE]

Entry(tvdb, scene, scene_2) == [tvdb |-> tvdb, scene |-> scene, scene_2 |-> scene_2]

success == <<"s", "u", "c", "c", "e", "s", "s">>
failure == <<"f", "a", "i", "l", "u", "r", "e">>

\* needle in hay, of two Python strings.
StrIn(needle, hay) ==
    \E i \in 1..(Len(hay) + 1) :
        /\ i + Len(needle) - 1 <= Len(hay)
        /\ SubSeq(hay, i, i + Len(needle) - 1) = needle

\* data is None or data == ''
IsNoneOrEmptyStr(data) == data.kind \in {"none", "emptystr"}

\* What the datastore does with an INSERT whose key is taken: the last write
\* for a key is the one that persists.
LastWriteWins(table, row) ==
    DeleteKey(table, row.indexer_id, row.season, row.episode) \cup {row}

\* INSERT INTO xem_numbering (...) VALUES (...) under PRIMARY KEY (indexer_id,
\* season, episode): a row whose key is free is added.
InsertXem(table, row) ==
    IF SelectKey(table, row.indexer_id, row.season, row.episode) = {}
    THEN table \cup {row}
    ELSE LastWriteWins(table, row)

\* The loop over result['data'] with the two INSERTs of an entry in the other
\* order, 'scene_2' before 'scene': C15 does not hold of it.
RECURSIVE InsertEntries_scene_last(_, _, _)
InsertEntries_scene_last(table, indexer_id, entries) ==
    IF entries = << >> THEN [table |-> table, ok |-> TRUE]
    ELSE LET entry == Head(entries)
             has1 == entry.scene # Absent
             has2 == entry.scene_2 # Absent
         IN IF (has1 \/ has2) /\ entry.tvdb = Absent
            THEN [table |-> table, ok |-> FALSE]
            ELSE LET t2 == IF has2
                           THEN InsertXem(table, Row(indexer_id, entry.tvdb[1], entry.tvdb[2],
                                                     entry.scene_2[1], entry.scene_2[2]))
                           ELSE table
                     t1 == IF has1
                           THEN InsertXem(t2, Row(indexer_id, entry.tvdb[1], entry.tvdb[2],
                                                  entry.scene[1], entry.scene[2]))
                           ELSE t2
                 IN InsertEntries_scene_last(t1, indexer_id, Tail(entries))

\* The loop over result['data']: [table, ok], ok false when an entry raised
\* (entry['tvdb'] of an entry that holds no 'tvdb') and the loop stopped there.
RECURSIVE InsertEntries(_, _, _)
InsertEntries(table, indexer_id, entries) ==
    IF entries = << >> THEN [table |-> table, ok |-> TRUE]
    ELSE LET entry == Head(entries)
             has1 == entry.scene # Absent
             has2 == entry.scene_2 # Absent
         IN IF (has1 \/ has2) /\ entry.tvdb = Absent
            THEN [table |-> table, ok |-> FALSE]
            ELSE LET t1 == IF has1
                           THEN InsertXem(table, Row(indexer_id, entry.tvdb[1], entry.tvdb[2],
                                                     entry.scene[1], entry.scene[2]))
                           ELSE table
                     t2 == IF has2
                           THEN InsertXem(t1, Row(indexer_id, entry.tvdb[1], entry.tvdb[2],
                                                  entry.scene_2[1], entry.scene_2[2]))
                           ELSE t1
                 IN InsertEntries(t2, indexer_id, Tail(entries))

\* INSERT OR REPLACE INTO xem_refresh (indexer_id, last_refreshed) VALUES (?,?)
UpsertMarker(xr, indexer_id, t) ==
    {m \in xr : m.indexer_id # indexer_id}
        \cup {[indexer_id |-> indexer_id, last_refreshed |-> t]}

_xem_refresh_needed(xr, indexer_id, t) ==
    IF indexer_id = None THEN FALSE
    ELSE LET rows == {m \in xr : m.indexer_id = indexer_id}
         IN IF rows # {}
            THEN LET m == CHOOSE m \in rows : TRUE
                 IN t > (int(m.last_refreshed) + MAX_XEM_AGE_SECS) * TicksPerSec
            ELSE TRUE

\* What a refresh leaves: the two cache tables, the number of HTTP requests it
\* issued, how it ended: "none" (it did not run), "neterror" (a request
\* raised), "giveup" (both endpoints gave no data), "empty" (a false result),
\* "failure" (the result does not say success), "success", "keyerror" (an
\* entry raised inside the insert loop, or result['message'] raised in the
\* failure log), and the result['data'] its insert loop went through (empty
\* when the loop did not run).
Refreshed(xn, xr, gets, outcome) ==
    [xn |-> xn, xr |-> xr, gets |-> gets, outcome |-> outcome, data |-> << >>]

\* _xem_refresh with the marker written before the first request: C7 does
\* not hold of it.
_xem_refresh_marker_first(xn, xr, indexer_id, resp1, resp2, t) ==
    IF indexer_id = None THEN Refreshed(xn, xr, 0, "none")
    ELSE LET marked == UpsertMarker(xr, indexer_id, t)
         IN IF resp1.kind = "raise" THEN Refreshed(xn, marked, 1, "neterror")
            ELSE IF IsNoneOrEmptyStr(resp1) /\ resp2.kind = "raise"
                 THEN Refreshed(xn, marked, 2, "neterror")
            ELSE IF IsNoneOrEmptyStr(resp1) /\ IsNoneOrEmptyStr(resp2)
                 THEN Refreshed(xn, marked, 2, "giveup")
            ELSE LET result == IF IsNoneOrEmptyStr(resp1) THEN resp2 ELSE resp1
                     gets == IF IsNoneOrEmptyStr(resp1) THEN 2 ELSE 1
                 IN IF result.kind = "dict"
                    THEN IF StrIn(success, result.result)
                         THEN LET ins == InsertEntries(DeleteShow(xn, indexer_id),
                                                       indexer_id, result.data)
                              IN [Refreshed(ins.table, marked, gets,
                                            IF ins.ok THEN "success" ELSE "keyerror")
                                     EXCEPT !.data = result.data]
                         ELSE Refreshed(xn, marked, gets,
                                   IF result.message THEN "failure" ELSE "keyerror")
                    ELSE Refreshed(xn, marked, gets, "empty")

\* _xem_refresh without the DELETE of the show's rows: C8 does not hold of
\* it.
_xem_refresh_no_delete(xn, xr, indexer_id, resp1, resp2, t) ==
    IF indexer_id = None THEN Refreshed(xn, xr, 0, "none")
    ELSE IF resp1.kind = "raise" THEN Refreshed(xn, xr, 1, "neterror")
    ELSE IF IsNoneOrEmptyStr(resp1) /\ resp2.kind = "raise"
         THEN Refreshed(xn, xr, 2, "neterror")
    ELSE IF IsNoneOrEmptyStr(resp1) /\ IsNoneOrEmptyStr(resp2)
         THEN Refreshed(xn, xr, 2, "giveup")
    ELSE LET result == IF IsNoneOrEmptyStr(resp1) THEN resp2 ELSE resp1
             gets == IF IsNoneOrEmptyStr(resp1) THEN 2 ELSE 1
         IN IF result.kind = "dict"
            THEN LET marked == UpsertMarker(xr, indexer_id, t)
                 IN IF StrIn(success, result.result)
                    THEN LET ins == InsertEntries(xn, indexer_id, result.data)
                         IN [Refreshed(ins.table, marked, gets,
                                       IF ins.ok THEN "success" ELSE "keyerror")
                                EXCEPT !.data = result.data]
                    ELSE Refreshed(xn, marked, gets,
                                   IF result.message THEN "failure" ELSE "keyerror")
            ELSE Refreshed(xn, xr, gets, "empty")

_xem_refresh(xn, xr, indexer_id, resp1, resp2, t) ==
    IF indexer_id = None THEN Refreshed(xn, xr, 0, "none")
    ELSE IF resp1.kind = "raise" THEN Refreshed(xn, xr, 1, "neterror")
    ELSE IF IsNoneOrEmptyStr(resp1) /\ resp2.kind = "raise"
         THEN Refreshed(xn, xr, 2, "neterror")
    ELSE IF IsNoneOrEmptyStr(resp1) /\ IsNoneOrEmptyStr(resp2)
         THEN Refreshed(xn, xr, 2, "giveup")
    ELSE LET result == IF IsNoneOrEmptyStr(resp1) THEN resp2 ELSE resp1
             gets == IF IsNoneOrEmptyStr(resp1) THEN 2 ELSE 1
         IN IF result.kind = "dict"                       \* if result:
            THEN LET marked == UpsertMarker(xr, indexer_id, t)
                 IN IF StrIn(success, result.result)
                    THEN LET ins == InsertEntries(DeleteShow(xn, indexer_id),
                                                  indexer_id, result.data)
                         IN [Refreshed(ins.table, marked, gets,
                                       IF ins.ok THEN "success" ELSE "keyerror")
                                EXCEPT !.data = result.data]
                    ELSE Refreshed(xn, marked, gets,
                                   IF result.message THEN "failure" ELSE "keyerror")
            ELSE Refreshed(xn, xr, gets, "empty")

\* if _xem_refresh_needed(indexer_id): _xem_refresh(indexer_id)
RefreshIfNeeded(xn, xr, indexer_id, resp1, resp2, t) ==
    IF _xem_refresh_needed(xr, indexer_id, t)
    THEN _xem_refresh(xn, xr, indexer_id, resp1, resp2, t)
    ELSE Refreshed(xn, xr, 0, "none")

\* rows[0] of a select without ORDER BY: the datastore may list any matching
\* row first; "first" names the key it prefers.
FirstRow(rows, first) ==
    IF \E r \in rows : <<r.season, r.episode>> = first
    THEN CHOOSE r \in rows : <<r.season, r.episode>> = first
    ELSE OrderBySeasonEpisode(rows)[1]

\* What a query leaves: its return value and what its refresh left.
Answer(value, c) ==
    [ret |-> value, xn |-> c.xn, xr |-> c.xr, gets |-> c.gets, outcome |-> c.outcome,
     data |-> c.data]

\* find_xem_numbering that selects from the table as it was before the
\* refresh: C20 does not hold of it.
find_xem_numbering_early_read(xn, xr, indexer_id, season, episode, resp1, resp2, t) ==
    IF indexer_id = None \/ season = None \/ episode = None
    THEN Answer(NoneResult, Refreshed(xn, xr, 0, "none"))
    ELSE LET c == RefreshIfNeeded(xn, xr, indexer_id, resp1, resp2, t)
             rows == SelectKey(xn, indexer_id, season, episode)
         IN IF rows # {}
            THEN LET r == CHOOSE r \in rows : TRUE
                 IN Answer(<<r.scene_season, r.scene_episode>>, c)
            ELSE Answer(NoneResult, c)

find_xem_numbering(xn, xr, indexer_id, season, episode, resp1, resp2, t) ==
    IF indexer_id = None \/ season = None \/ episode = None
    THEN Answer(NoneResult, Refreshed(xn, xr, 0, "none"))
    ELSE LET c == RefreshIfNeeded(xn, xr, indexer_id, resp1, resp2, t)
             rows == SelectKey(c.xn, indexer_id, season, episode)
         IN IF rows # {}
            THEN LET r == CHOOSE r \in rows : TRUE
                 IN Answer(<<r.scene_season, r.scene_episode>>, c)
            ELSE Answer(NoneResult, c)

get_indexer_numbering_for_xem(xn, xr, indexer_id, sceneSeason, sceneEpisode, resp1, resp2, t, first) ==
    IF indexer_id = None \/ sceneSeason = None \/ sceneEpisode = None
    THEN Answer(NoneResult, Refreshed(xn, xr, 0, "none"))
    ELSE LET c == RefreshIfNeeded(xn, xr, indexer_id, resp1, resp2, t)
             rows == SelectScene(c.xn, indexer_id, sceneSeason, sceneEpisode)
         IN IF rows # {}
            THEN LET r == FirstRow(rows, first)
                 IN Answer(<<r.season, r.episode>>, c)
            ELSE Answer(<<sceneSeason, sceneEpisode>>, c)

get_xem_numbering_for_show(xn, xr, indexer_id, resp1, resp2, t) ==
    IF indexer_id = None
    THEN Answer(EmptyDict, Refreshed(xn, xr, 0, "none"))
    ELSE LET c == RefreshIfNeeded(xn, xr, indexer_id, resp1, resp2, t)
         IN Answer(DictOfRows(OrderBySeasonEpisode(SelectShow(c.xn, indexer_id)),
                              EmptyDict), c)

\* The rows of one season in the order the datastore lists them (ORDER BY
\* season leaves the order within the season open): "order" lists the
\* episodes in that order.
RECURSIVE RowsInOrder(_, _)
RowsInOrder(rows, order) ==
    IF order = << >> THEN << >>
    ELSE LET here == {r \in rows : r.episode = Head(order)}
         IN (IF here = {} THEN << >> ELSE <<CHOOSE r \in here : TRUE>>)
            \o RowsInOrder(rows, Tail(order))

\* result.setdefault(key, []).append(value)
SetDefaultAppend(d, key, value) ==
    IF key \in DOMAIN d
    THEN [d EXCEPT ![key] = Append(@, value)]
    ELSE DictSet(d, key, <<value>>)

RECURSIVE SeasonDictOfRows(_, _)
SeasonDictOfRows(rows, result) ==
    IF rows = << >> THEN result
    ELSE SeasonDictOfRows(Tail(rows),
                          SetDefaultAppend(result, Head(rows).season,
                                           Head(rows).scene_season))

get_xem_numbering_for_season(xn, xr, indexer_id, season, resp1, resp2, t, order) ==
    IF indexer_id = None \/ season = None
    THEN Answer(EmptyDict, Refreshed(xn, xr, 0, "none"))
    ELSE LET c == RefreshIfNeeded(xn, xr, indexer_id, resp1, resp2, t)
             rows == RowsInOrder({r \in c.xn : r.indexer_id = indexer_id
                                               /\ r.season = season}, order)
         IN IF rows # << >>
            THEN Answer(SeasonDictOfRows(rows, EmptyDict), c)
            ELSE Answer(SetDefaultAppend(EmptyDict, season, season), c)

(***************************************************************************)
(* The resolver.                                                           *)
(***************************************************************************)
get_scene_numbering(sn, xn, xr, indexer_id, season, episode, fallback_to_xem, resp1, resp2, t) ==
    IF indexer_id = None \/ season = None \/ episode = None
    THEN Answer(<<season, episode>>, Refreshed(xn, xr, 0, "none"))
    ELSE LET result == find_scene_numbering(sn, indexer_id, season, episode)
         IN IF Truthy(result)
            THEN Answer(result, Refreshed(xn, xr, 0, "none"))
            ELSE IF fallback_to_xem
                 THEN LET xem == find_xem_numbering(xn, xr, indexer_id, season, episode,
                                                    resp1, resp2, t)
                      IN IF Truthy(xem.ret)
                         THEN xem
                         ELSE [xem EXCEPT !.ret = <<season, episode>>]
                 ELSE Answer(<<season, episode>>, Refreshed(xn, xr, 0, "none"))

\* get_indexer_numbering that selects by the indexer columns instead of the
\* scene columns: C4 does not hold of it.
get_indexer_numbering_by_key(sn, xn, xr, indexer_id, sceneSeason, sceneEpisode, fallback_to_xem, resp1, resp2, t, first) ==
    IF indexer_id = None \/ sceneSeason = None \/ sceneEpisode = None
    THEN Answer(<<sceneSeason, sceneEpisode>>, Refreshed(xn, xr, 0, "none"))
    ELSE LET rows == SelectKey(sn, indexer_id, sceneSeason, sceneEpisode)
         IN IF rows # {}
            THEN LET r == FirstRow(rows, first)
                 IN Answer(<<r.season, r.episode>>, Refreshed(xn, xr, 0, "none"))
            ELSE IF fallback_to_xem
                 THEN get_indexer_numbering_for_xem(xn, xr, indexer_id, sceneSeason,
                                                    sceneEpisode, resp1, resp2, t, first)
                 ELSE Answer(<<sceneSeason, sceneEpisode>>, Refreshed(xn, xr, 0, "none"))

get_indexer_numbering(sn, xn, xr, indexer_id, sceneSeason, sceneEpisode, fallback_to_xem, resp1, resp2, t, first) ==
    IF indexer_id = None \/ sceneSeason = None \/ sceneEpisode = None
    THEN Answer(<<sceneSeason, sceneEpisode>>, Refreshed(xn, xr, 0, "none"))
    ELSE LET rows == SelectScene(sn, indexer_id, sceneSeason, sceneEpisode)
         IN IF rows # {}
            THEN LET r == FirstRow(rows, first)
                 IN Answer(<<r.season, r.episode>>, Refreshed(xn, xr, 0, "none"))
            ELSE IF fallback_to_xem
                 THEN get_indexer_numbering_for_xem(xn, xr, indexer_id, sceneSeason,
                                                    sceneEpisode, resp1, resp2, t, first)
                 ELSE Answer(<<sceneSeason, sceneEpisode>>, Refreshed(xn, xr, 0, "none"))

(***************************************************************************)
(* The state.  scene_numbering, xem_numbering and xem_refresh are the      *)
(* tables (sets of rows); now is time.time() in ticks; call is the public  *)
(* function that has just returned with its arguments (NoCall between two  *)
(* calls), ret its return value, refresh what its refresh did.             *)
(***************************************************************************)
Call(op, indexer_id, season, episode, sceneSeason, sceneEpisode, fallback_to_xem) ==
    [op |-> op, indexer_id |-> indexer_id, season |-> season, episode |-> episode,
     sceneSeason |-> sceneSeason, sceneEpisode |-> sceneEpisode,
     fallback_to_xem |-> fallback_to_xem]

NoCall == Call("idle", None, None, None, None, None, FALSE)

NoRefresh == [gets |-> 0, outcome |-> "none", data |-> << >>]

\* The threads of the host program that may be inside find_xem_numbering at
\* the same time.  A thread is at pc: "idle", "needed" (the SELECT of
\* _xem_refresh_needed), "get" (the requests), "upsert" (the marker),
\* "delete", "insert" (the loop, at entry i, half 0 before its 'scene' INSERT
\* and 1 before its 'scene_2' INSERT), "select" (the SELECT of the query),
\* "done".  old is the show's rows as the thread's DELETE found them, full
\* holds for each show the rows that the last payload the thread went
\* through gives when no other thread writes, whole whether its SELECT saw a
\* whole mapping.
MaxCallers == 2
Callers == 1..MaxCallers

NoResult == Response("none", << >>, << >>)

IdleThread ==
    [pc |-> "idle", indexer_id |-> None, season |-> None, episode |-> None,
     result |-> NoResult, i |-> 0, half |-> 0, old |-> {}, full |-> {},
     ret |-> NoneResult, whole |-> TRUE]

Init ==
    /\ scene_numbering = {}
    /\ xem_numbering = {}
    /\ xem_refresh = {}
    /\ now = 0
    /\ call = NoCall
    /\ ret = NoneResult
    /\ refresh = NoRefresh
    /\ threads = [p \in Callers |-> IdleThread]

\* The responses the two endpoints may give to one refresh, the primary's
\* from R1 and the secondary's from R2: the secondary is only asked when the
\* primary gave None or ''.
Raise == Response("raise", << >>, << >>)

Endpoints(R1, R2) ==
    {<<r, r>> : r \in {q \in R1 : ~IsNoneOrEmptyStr(q)}}
        \cup ({q \in R1 : IsNoneOrEmptyStr(q)} \X R2)

\* The endpoints are only drawn, from the pairs P, for a show whose marker is
\* missing or old.
EndpointsFor(P, indexer_id) ==
    IF _xem_refresh_needed(xem_refresh, indexer_id, now)
    THEN P ELSE {<<Raise, Raise>>}

\* A query returns: its answer is recorded and the cache tables are as it
\* left them.
Returns(c, answer) ==
    /\ call' = c
    /\ ret' = answer.ret
    /\ refresh' = [gets |-> answer.gets, outcome |-> answer.outcome, data |-> answer.data]
    /\ xem_numbering' = answer.xn
    /\ xem_refresh' = answer.xr
    /\ UNCHANGED <<scene_numbering, now, threads>>

OrNone(S) == S \cup {None}

\* Each action draws its arguments from the sets it is given: the shows S,
\* the seasons A, the episodes B (of either numbering), the endpoints'
\* answers P.
GetSceneNumbering(S, A, B, P) ==
    /\ call = NoCall
    /\ \E indexer_id \in S, season \in A, episode \in B,
          fallback_to_xem \in BOOLEAN :
          \E e \in EndpointsFor(P, indexer_id) :
             Returns(Call("get_scene_numbering", indexer_id, season, episode, None, None,
                          fallback_to_xem),
                     get_scene_numbering(scene_numbering, xem_numbering, xem_refresh,
                                         indexer_id, season, episode, fallback_to_xem,
                                         e[1], e[2], now))

FindSceneNumbering(S, A, B) ==
    /\ call = NoCall
    /\ \E indexer_id \in S, season \in A, episode \in B :
          /\ call' = Call("find_scene_numbering", indexer_id, season, episode, None, None,
                          FALSE)
          /\ ret' = find_scene_numbering(scene_numbering, indexer_id, season, episode)
          /\ refresh' = NoRefresh
          /\ UNCHANGED <<scene_numbering, xem_numbering, xem_refresh, now, threads>>

\* The keys the datastore may list first among the rows of a table.
FirstKeys(table) ==
    IF table = {} THEN {<<1, 1>>} ELSE {<<r.season, r.episode>> : r \in table}

GetIndexerNumbering(S, A, B, P) ==
    /\ call = NoCall
    /\ \E indexer_id \in S, sceneSeason \in A, sceneEpisode \in B, fallback_to_xem \in BOOLEAN :
          \E e \in EndpointsFor(P, indexer_id) :
             \E first \in FirstKeys(
                    SelectScene(scene_numbering, indexer_id, sceneSeason, sceneEpisode)
                    \cup SelectScene(
                         RefreshIfNeeded(xem_numbering, xem_refresh, indexer_id,
                                         e[1], e[2], now).xn,
                         indexer_id, sceneSeason, sceneEpisode)) :
                Returns(Call("get_indexer_numbering", indexer_id, None, None, sceneSeason,
                             sceneEpisode, fallback_to_xem),
                        get_indexer_numbering(scene_numbering, xem_numbering, xem_refresh,
                                              indexer_id, sceneSeason, sceneEpisode,
                                              fallback_to_xem, e[1], e[2], now, first))

GetSceneNumberingForShow(S) ==
    /\ call = NoCall
    /\ \E indexer_id \in S :
          /\ call' = Call("get_scene_numbering_for_show", indexer_id, None, None, None,
                          None, FALSE)
          /\ ret' = get_scene_numbering_for_show(scene_numbering, indexer_id)
          /\ refresh' = NoRefresh
          /\ UNCHANGED <<scene_numbering, xem_numbering, xem_refresh, now, threads>>

\* cap bounds the rows of scene_numbering.
SetSceneNumbering(S, A, B, cap) ==
    /\ call = NoCall
    /\ \E indexer_id \in S, season \in A, episode \in B,
          sceneSeason \in OrNone(Seasons), sceneEpisode \in OrNone(Episodes) :
          /\ scene_numbering' = set_scene_numbering(scene_numbering, indexer_id, season,
                                                    episode, sceneSeason, sceneEpisode)
          /\ Cardinality(scene_numbering') <= cap
          /\ call' = Call("set_scene_numbering", indexer_id, season, episode, sceneSeason,
                          sceneEpisode, FALSE)
          /\ ret' = NoneResult
          /\ refresh' = NoRefresh
          /\ UNCHANGED <<xem_numbering, xem_refresh, now, threads>>

FindXemNumbering(S, A, B, P) ==
    /\ call = NoCall
    /\ \E indexer_id \in S, season \in A, episode \in B :
          \E e \in EndpointsFor(P, indexer_id) :
             Returns(Call("find_xem_numbering", indexer_id, season, episode, None, None,
                          FALSE),
                     find_xem_numbering(xem_numbering, xem_refresh, indexer_id, season,
                                        episode, e[1], e[2], now))

GetIndexerNumberingForXem(S, A, B, P) ==
    /\ call = NoCall
    /\ \E indexer_id \in S, sceneSeason \in A, sceneEpisode \in B :
          \E e \in EndpointsFor(P, indexer_id) :
             \E first \in FirstKeys(
                    SelectScene(
                         RefreshIfNeeded(xem_numbering, xem_refresh, indexer_id,
                                         e[1], e[2], now).xn,
                         indexer_id, sceneSeason, sceneEpisode)) :
                Returns(Call("get_indexer_numbering_for_xem", indexer_id, None, None,
                             sceneSeason, sceneEpisode, FALSE),
                        get_indexer_numbering_for_xem(xem_numbering, xem_refresh, indexer_id,
                                                      sceneSeason, sceneEpisode,
                                                      e[1], e[2], now, first))

GetXemNumberingForShow(S, P) ==
    /\ call = NoCall
    /\ \E indexer_id \in S :
          \E e \in EndpointsFor(P, indexer_id) :
             Returns(Call("get_xem_numbering_for_show", indexer_id, None, None, None, None,
                          FALSE),
                     get_xem_numbering_for_show(xem_numbering, xem_refresh, indexer_id,
                                                e[1], e[2], now))

\* The orders in which the datastore may list the episodes of a season.
Orders == {o \in [1..MaxEpisode -> Episodes] : \A i, j \in 1..MaxEpisode : i # j => o[i] # o[j]}

GetXemNumberingForSeason(S, A, P) ==
    /\ call = NoCall
    /\ \E indexer_id \in S, season \in A :
          \E e \in EndpointsFor(P, indexer_id), order \in Orders :
             Returns(Call("get_xem_numbering_for_season", indexer_id, season, None, None,
                          None, FALSE),
                     get_xem_numbering_for_season(xem_numbering, xem_refresh, indexer_id,
                                                  season, e[1], e[2], now, order))

\* The caller takes the result; the next call may start.
Return ==
    /\ call # NoCall
    /\ call' = NoCall
    /\ ret' = NoneResult
    /\ refresh' = NoRefresh
    /\ UNCHANGED <<scene_numbering, xem_numbering, xem_refresh, now, threads>>

\* Time passes between two calls: the clock is next read at one of the
\* instants I.
Tick(I) ==
    /\ call = NoCall
    /\ \E t \in I : t > now /\ now' = t
    /\ UNCHANGED <<scene_numbering, xem_numbering, xem_refresh, call, ret, refresh, threads>>

(***************************************************************************)
(* find_xem_numbering run by several threads, one datastore statement or   *)
(* one exchange with the endpoints at a step.  Nothing in the module       *)
(* serializes two threads.                                                 *)
(***************************************************************************)
Goto(p, pc) == threads' = [threads EXCEPT ![p].pc = pc]

\* The threads other than p that have deleted the rows of show indexer_id
\* and are still in their insert loop.
Writers(p, indexer_id) ==
    {q \in Callers \ {p} : threads[q].pc = "insert" /\ threads[q].indexer_id = indexer_id}

\* Thread p enters find_xem_numbering(indexer_id, season, episode).
Begin(p, S, A, B) ==
    /\ threads[p].pc = "idle"
    /\ \E indexer_id \in S, season \in A, episode \in B :
          threads' = [threads EXCEPT ![p] = [@ EXCEPT !.pc = "needed",
                                                     !.indexer_id = indexer_id,
                                                     !.season = season,
                                                     !.episode = episode,
                                                     !.result = NoResult,
                                                     !.i = 0, !.half = 0,
                                                     !.ret = NoneResult,
                                                     !.whole = TRUE]]
    /\ UNCHANGED <<scene_numbering, xem_numbering, xem_refresh, now, call, ret, refresh>>

\* if _xem_refresh_needed(indexer_id):
CheckNeeded(p) ==
    /\ threads[p].pc = "needed"
    /\ Goto(p, IF _xem_refresh_needed(xem_refresh, threads[p].indexer_id, now)
               THEN "get" ELSE "select")
    /\ UNCHANGED <<scene_numbering, xem_numbering, xem_refresh, now, call, ret, refresh>>

\* The requests of _xem_refresh, answered by a pair of P: a request that
\* raises, two empty answers and a false result leave the tables alone.
GetUrl(p, P) ==
    /\ threads[p].pc = "get"
    /\ \E e \in P :
          IF e[1].kind = "raise" \/ (IsNoneOrEmptyStr(e[1]) /\ e[2].kind = "raise")
          THEN Goto(p, "select")
          ELSE IF IsNoneOrEmptyStr(e[1]) /\ IsNoneOrEmptyStr(e[2])
          THEN Goto(p, "select")
          ELSE LET result == IF IsNoneOrEmptyStr(e[1]) THEN e[2] ELSE e[1]
               IN IF result.kind = "dict"
                  THEN threads' = [threads EXCEPT ![p].pc = "upsert", ![p].result = result]
                  ELSE Goto(p, "select")
    /\ UNCHANGED <<scene_numbering, xem_numbering, xem_refresh, now, call, ret, refresh>>

\* The marker's upsert, then the test of result['result'].
UpsertStep(p) ==
    /\ threads[p].pc = "upsert"
    /\ xem_refresh' = UpsertMarker(xem_refresh, threads[p].indexer_id, now)
    /\ Goto(p, IF StrIn(success, threads[p].result.result) THEN "delete" ELSE "select")
    /\ UNCHANGED <<scene_numbering, xem_numbering, now, call, ret, refresh>>

\* DELETE FROM xem_numbering WHERE indexer_id = ?
DeleteStep(p) ==
    /\ threads[p].pc = "delete"
    /\ xem_numbering' = DeleteShow(xem_numbering, threads[p].indexer_id)
    /\ threads' = [threads EXCEPT
                      ![p].pc = "insert", ![p].i = 1, ![p].half = 0,
                      ![p].old = SelectShow(xem_numbering, threads[p].indexer_id),
                      ![p].full = DeleteShow(@, threads[p].indexer_id)
                                     \cup InsertEntries({}, threads[p].indexer_id,
                                                        threads[p].result.data).table]
    /\ UNCHANGED <<scene_numbering, xem_refresh, now, call, ret, refresh>>

\* One INSERT of the loop, or the step over a mapping the entry lacks; the
\* loop ends after the last entry or at an entry that raises.
InsertStep(p) ==
    /\ threads[p].pc = "insert"
    /\ LET th == threads[p]
           data == th.result.data
       IN IF th.i > Len(data)
          THEN Goto(p, "select") /\ UNCHANGED xem_numbering
          ELSE LET entry == data[th.i]
                   pair == IF th.half = 0 THEN entry.scene ELSE entry.scene_2
                   next == IF th.half = 0 THEN [th EXCEPT !.half = 1]
                           ELSE [th EXCEPT !.i = @ + 1, !.half = 0]
               IN IF pair = Absent
                  THEN threads' = [threads EXCEPT ![p] = next] /\ UNCHANGED xem_numbering
                  ELSE IF entry.tvdb = Absent
                  THEN Goto(p, "select") /\ UNCHANGED xem_numbering
                  ELSE /\ xem_numbering' = InsertXem(xem_numbering,
                                               Row(th.indexer_id, entry.tvdb[1],
                                                   entry.tvdb[2], pair[1], pair[2]))
                       /\ threads' = [threads EXCEPT ![p] = next]
    /\ UNCHANGED <<scene_numbering, xem_refresh, now, call, ret, refresh>>

\* SELECT scene_season, scene_episode FROM xem_numbering WHERE ..., and the
\* return value made of its rows.  While other threads are between their
\* DELETE and the end of their loop, the show's rows are whole when they are
\* the rows one of them found or the rows its payload gives, or the rows of
\* the payload that this thread has just gone through.
SelectStep(p) ==
    /\ threads[p].pc = "select"
    /\ LET th == threads[p]
           rows == SelectKey(xem_numbering, th.indexer_id, th.season, th.episode)
           seen == SelectShow(xem_numbering, th.indexer_id)
           writers == Writers(p, th.indexer_id)
       IN threads' = [threads EXCEPT
                        ![p].pc = "done",
                        ![p].ret = IF rows # {}
                                   THEN LET r == CHOOSE r \in rows : TRUE
                                        IN <<r.scene_season, r.scene_episode>>
                                   ELSE NoneResult,
                        ![p].whole = \/ writers = {}
                                     \/ \E q \in writers :
                                           seen \in {threads[q].old,
                                                     SelectShow(threads[q].full, th.indexer_id)}
                                     \/ th.i > 0 /\ seen = SelectShow(th.full, th.indexer_id)]
    /\ UNCHANGED <<scene_numbering, xem_numbering, xem_refresh, now, call, ret, refresh>>

\* Thread p takes the result.
Finish(p) ==
    /\ threads[p].pc = "done"
    /\ Goto(p, "idle")
    /\ UNCHANGED <<scene_numbering, xem_numbering, xem_refresh, now, call, ret, refresh>>

(***************************************************************************)
(* The inputs: what the endpoints may answer, and when the clock is read.  *)
(***************************************************************************)
\* The indexer keys and the scene pairs the remote service maps.
XemKeys == {<<1, e>> : e \in Episodes}
XemScenes == {<<1, MaxEpisode>>, <<MaxSeason, 1>>}

\* An entry with a mapping and no 'tvdb'.
Keyless == Entry(Absent, <<1, MaxEpisode>>, Absent)

\* Entries with 'scene', 'scene_2', both or neither.
Entries == {Entry(k, s1, s2) : k \in XemKeys, s1 \in XemScenes \cup {Absent},
                                s2 \in XemScenes \cup {Absent}}
               \cup {Keyless}

\* Entries with 'tvdb' and 'scene' only.
PlainEntries == {e \in Entries : e.tvdb # Absent /\ e.scene # Absent /\ e.scene_2 = Absent}

DataLists(E, n) == UNION {[1..m -> E] : m \in 0..n}

\* The answers that carry no mapping.
NoData ==
    {Raise, Response("none", << >>, << >>), Response("emptystr", << >>, << >>),
     Response("empty", << >>, << >>), Response("dict", failure, << >>),
     NoMessage(Response("dict", failure, << >>))}

Responses(E, n) == NoData \cup {Response("dict", success, d) : d \in DataLists(E, n)}

\* The clock read once a day, more than a day after the last reading.
DailyInstants == {d * (DayTicks + 1) : d \in 0..MaxDays}

\* The clock read around each day's start, tick by tick.
Instants == {d * DayTicks + o : d \in 0..MaxDays, o \in 0..MaxOff}

(***************************************************************************)
(* Spec: the whole public interface on one show, arguments that may be     *)
(* None, answers of at most MaxPlain plain entries, at most MaxRows        *)
(* overrides.                                                              *)
(***************************************************************************)
MaxPlain == 1
MaxRows == 1

OneShow == {1}
PlainResponses == Responses(PlainEntries, MaxPlain)
Plain == Endpoints(PlainResponses, PlainResponses)

Next ==
    \/ GetSceneNumbering(OrNone(OneShow), OrNone(Seasons), OrNone(Episodes), Plain)
    \/ FindSceneNumbering(OrNone(OneShow), OrNone(Seasons), OrNone(Episodes))
    \/ GetIndexerNumbering(OrNone(OneShow), OrNone(Seasons), OrNone(Episodes), Plain)
    \/ GetSceneNumberingForShow(OrNone(OneShow))
    \/ SetSceneNumbering(OrNone(OneShow), OrNone(Seasons), OrNone(Episodes), MaxRows)
    \/ FindXemNumbering(OrNone(OneShow), OrNone(Seasons), OrNone(Episodes), Plain)
    \/ GetIndexerNumberingForXem(OrNone(OneShow), OrNone(Seasons), OrNone(Episodes), Plain)
    \/ GetXemNumberingForShow(OrNone(OneShow), Plain)
    \/ GetXemNumberingForSeason(OrNone(OneShow), OrNone(Seasons), Plain)
    \/ Return
    \/ Tick(DailyInstants)

Spec == Init /\ [][Next]_vars

(***************************************************************************)
(* SpecOverride: the override store alone, on every show; the endpoints    *)
(* have no data.                                                           *)
(***************************************************************************)
Silent == Endpoints(NoData, NoData)

NextOverride ==
    \/ GetSceneNumbering(Shows, Seasons, Episodes, Silent)
    \/ FindSceneNumbering(Shows, Seasons, Episodes)
    \/ GetIndexerNumbering(Shows, Seasons, Episodes, Silent)
    \/ GetSceneNumberingForShow(Shows)
    \/ SetSceneNumbering(Shows, Seasons, Episodes, MaxOverrides)
    \/ Return

SpecOverride == Init /\ [][NextOverride]_vars

(***************************************************************************)
(* SpecXem: the remote cache alone, on every show; the show dump meets     *)
(* every answer of at most MaxEntries entries.                             *)
(***************************************************************************)
Rich == Endpoints(Responses(Entries, MaxEntries), PlainResponses)

NextXem ==
    \/ FindXemNumbering(Shows, Seasons, Episodes, Plain)
    \/ GetIndexerNumberingForXem(Shows, Seasons, Episodes, Plain)
    \/ GetXemNumberingForShow(Shows, Rich)
    \/ GetXemNumberingForSeason(Shows, Seasons, Plain)
    \/ Return
    \/ Tick(DailyInstants)

SpecXem == Init /\ [][NextXem]_vars

(***************************************************************************)
(* SpecStale: the remote cache with the clock read tick by tick.           *)
(***************************************************************************)
Bare == Endpoints(Responses(PlainEntries, 0), Responses(PlainEntries, 0))

NextStale ==
    \/ FindXemNumbering(Shows, Seasons, Episodes, Bare)
    \/ GetIndexerNumberingForXem(Shows, Seasons, Episodes, Bare)
    \/ GetXemNumberingForShow(Shows, Bare)
    \/ GetXemNumberingForSeason(Shows, Seasons, Bare)
    \/ Return
    \/ Tick(Instants)

SpecStale == Init /\ [][NextStale]_vars

(***************************************************************************)
(* SpecConcurrent: MaxCallers threads inside find_xem_numbering of one     *)
(* show, interleaved statement by statement.                               *)
(***************************************************************************)
\* Two answers with one mapping each, of two keys, one with an entry that
\* lacks 'tvdb', an answer with no entry, a failure, no answer and a request
\* that raises.
RacingEntries == {Entry(<<1, 1>>, <<1, MaxEpisode>>, Absent), Entry(<<1, MaxEpisode>>, <<MaxSeason, 1>>, Absent), Keyless}

RacingResponses ==
    {Raise, Response("none", << >>, << >>), Response("dict", failure, << >>)}
        \cup {Response("dict", success, d) : d \in DataLists(RacingEntries, 1)}

Racing == Endpoints(RacingResponses, RacingResponses)

NextConcurrent ==
    \/ \E p \in Callers : Begin(p, OneShow, {1}, {1})
    \/ \E p \in Callers : CheckNeeded(p)
    \/ \E p \in Callers : GetUrl(p, Racing)
    \/ \E p \in Callers : UpsertStep(p)
    \/ \E p \in Callers : DeleteStep(p)
    \/ \E p \in Callers : InsertStep(p)
    \/ \E p \in Callers : SelectStep(p)
    \/ \E p \in Callers : Finish(p)
    \/ Tick(DailyInstants)

SpecConcurrent == Init /\ [][NextConcurrent]_vars

(***************************************************************************)
(* What the claims speak of.                                               *)
(***************************************************************************)
\* The call that has just returned is op with no argument None.
Called(op) ==
    /\ call.op = op
    /\ call.indexer_id # None
    /\ (op \in {"get_scene_numbering", "find_scene_numbering", "set_scene_numbering",
                "find_xem_numbering"}
          => call.season # None /\ call.episode # None)
    /\ (op \in {"get_indexer_numbering", "get_indexer_numbering_for_xem"}
          => call.sceneSeason # None /\ call.sceneEpisode # None)
    /\ (op = "get_xem_numbering_for_season" => call.season # None)

\* The scene pair of a row.
ScenePair(r) == <<r.scene_season, r.scene_episode>>

\* The Override Record and the Remote Mapping Record of the call's key.
OverrideOfCall == SelectKey(scene_numbering, call.indexer_id, call.season, call.episode)
MappingOfCall == SelectKey(xem_numbering, call.indexer_id, call.season, call.episode)

\* The instants at which the next call may read the clock.
Later == {t \in DailyInstants : t >= now}

\* What the next get_scene_numbering of the call's key returns, for every
\* fallback flag, every answer of the endpoints and every later instant.
NextGets ==
    {get_scene_numbering(scene_numbering, xem_numbering, xem_refresh, call.indexer_id,
                         call.season, call.episode, fb, e[1], e[2], t).ret :
        fb \in BOOLEAN, e \in Plain, t \in Later}

(***************************************************************************)
(* C1: after set_scene_numbering(s, a, b, x, y) with x and y not None, the *)
(* next get_scene_numbering(s, a, b) returns exactly (x, y), whatever the  *)
(* remote cache holds for (s, a, b), whatever the marker of s and whatever *)
(* the endpoints answer; and every get_scene_numbering of a key that has   *)
(* an Override Record returns that record's scene pair.                    *)
(***************************************************************************)
C1_OverrideWins ==
    /\ (Called("set_scene_numbering") /\ call.sceneSeason # None /\ call.sceneEpisode # None)
          => NextGets = {<<call.sceneSeason, call.sceneEpisode>>}
    /\ (Called("get_scene_numbering") /\ OverrideOfCall # {})
          => \A r \in OverrideOfCall : ret = ScenePair(r)

\* An override has just been set on a key whose cached remote mapping is
\* another pair, and the show's marker is old.
C1_Witness ==
    /\ Called("set_scene_numbering")
    /\ call.sceneSeason # None /\ call.sceneEpisode # None
    /\ \E r \in MappingOfCall : ScenePair(r) # <<call.sceneSeason, call.sceneEpisode>>
    /\ \E t \in Later : _xem_refresh_needed(xem_refresh, call.indexer_id, t)

(***************************************************************************)
(* C2: with no Override Record for (s, a, b), get_scene_numbering(s, a, b, *)
(* fallback_to_xem=True) returns the remote mapping's scene pair when the  *)
(* remote cache holds a row for (s, a, b), and (a, b) only when it holds   *)
(* none.  Stated for a show whose marker is fresh, so that the cache is as *)
(* a refresh-if-stale leaves it.                                           *)
(***************************************************************************)
C2_FallsBackToXem ==
    (/\ Called("get_scene_numbering")
     /\ call.fallback_to_xem
     /\ OverrideOfCall = {}
     /\ ~_xem_refresh_needed(xem_refresh, call.indexer_id, now))
    => IF MappingOfCall # {}
       THEN \A r \in MappingOfCall : ret = ScenePair(r)
       ELSE ret = <<call.season, call.episode>>

(***************************************************************************)
(* C3: where no Override Record and no Remote Mapping Record exists for    *)
(* (s, a, b) once the call has returned (a refresh, if one ran, gave none),*)
(* get_scene_numbering(s, a, b) returns (a, b).                            *)
(***************************************************************************)
C3_Identity ==
    (Called("get_scene_numbering") /\ OverrideOfCall = {} /\ MappingOfCall = {})
    => ret = <<call.season, call.episode>>

\* get_scene_numbering(s, a, b) with a # b has returned where the key has
\* neither record, while the tables hold records of other keys.
C3_Witness ==
    /\ Called("get_scene_numbering")
    /\ call.season # call.episode
    /\ OverrideOfCall = {} /\ MappingOfCall = {}
    /\ scene_numbering # {} /\ xem_numbering # {}
    /\ ret = <<call.season, call.episode>>

(***************************************************************************)
(* C4: with an empty remote cache and no remote data, for every (s, a, b)  *)
(* that has an Override Record, get_indexer_numbering(s,                   *)
(* *get_scene_numbering(s, a, b)) == (a, b), also when two indexer         *)
(* episodes of the show were set to the same scene pair.                   *)
(***************************************************************************)
\* get_indexer_numbering(s, *get_scene_numbering(s, a, b)) for the key of row
\* r: every value it may return, over the endpoints' answers and the row the
\* datastore lists first.
RoundTrips(r) ==
    UNION {LET scene == get_scene_numbering(scene_numbering, xem_numbering, xem_refresh,
                                            r.indexer_id, r.season, r.episode, TRUE,
                                            e[1], e[2], now).ret
           IN {get_indexer_numbering(scene_numbering, xem_numbering, xem_refresh,
                                     r.indexer_id, scene[1], scene[2], TRUE,
                                     e[1], e[2], now, first).ret :
                  first \in FirstKeys(SelectScene(scene_numbering, r.indexer_id,
                                                  scene[1], scene[2]))} :
           e \in Silent}

C4_ExactInverse ==
    \A r \in scene_numbering : RoundTrips(r) = {<<r.season, r.episode>>}

\* No other Override Record of the show of r has the scene pair of r.
SoleScene(r) ==
    SelectScene(scene_numbering, r.indexer_id, r.scene_season, r.scene_episode) = {r}

(***************************************************************************)
(* C4, amended: the round trip gives (a, b) for every Override Record      *)
(* whose scene pair is the scene pair of no other Override Record of the   *)
(* same show; and every get_indexer_numbering of a scene pair that exactly *)
(* one Override Record of the show has returns that record's key.          *)
(***************************************************************************)
C4_InverseWhereInjective ==
    /\ xem_numbering = {}
    /\ \A r \in scene_numbering :
          SoleScene(r) => RoundTrips(r) = {<<r.season, r.episode>>}
    /\ Called("get_indexer_numbering")
          => \A r \in SelectScene(scene_numbering, call.indexer_id, call.sceneSeason,
                                  call.sceneEpisode) :
                SoleScene(r) => ret = <<r.season, r.episode>>

\* get_indexer_numbering has returned the key of an override whose scene
\* pair differs from its key, in a show with a second override.
C4_Witness ==
    /\ Called("get_indexer_numbering")
    /\ \E r \in SelectScene(scene_numbering, call.indexer_id, call.sceneSeason,
                             call.sceneEpisode) :
          /\ SoleScene(r)
          /\ ScenePair(r) # <<r.season, r.episode>>
          /\ r.season # r.episode
          /\ Cardinality(SelectShow(scene_numbering, r.indexer_id)) >= 2
          /\ ret = <<r.season, r.episode>>

(***************************************************************************)
(* C5: after set_scene_numbering(s, a, b, None, None) on a key that had an *)
(* Override Record, no Override Record for (s, a, b) exists                *)
(* (get_scene_numbering_for_show(s) has no key (a, b)), every other        *)
(* Override Record is unchanged, and the next get_scene_numbering(s, a, b) *)
(* returns the remote mapping if one is cached, else (a, b).  The last is  *)
(* stated for a show whose marker is fresh.                                *)
(***************************************************************************)
\* What the next get_scene_numbering of the call's key returns at this
\* instant with the fallback on.
GetsNow ==
    {get_scene_numbering(scene_numbering, xem_numbering, xem_refresh, call.indexer_id,
                         call.season, call.episode, TRUE, e[1], e[2], now).ret :
        e \in Plain}

Cleared ==
    /\ OverrideOfCall = {}
    /\ <<call.season, call.episode>>
          \notin DOMAIN get_scene_numbering_for_show(scene_numbering, call.indexer_id)
    /\ ~_xem_refresh_needed(xem_refresh, call.indexer_id, now)
          => GetsNow = IF MappingOfCall # {}
                       THEN {ScenePair(r) : r \in MappingOfCall}
                       ELSE {<<call.season, call.episode>>}

C5_ClearFallsThrough ==
    [][(/\ call = NoCall
        /\ Called("set_scene_numbering")'
        /\ call'.sceneSeason = None /\ call'.sceneEpisode = None
        /\ SelectKey(scene_numbering, call'.indexer_id, call'.season, call'.episode) # {})
       => /\ Cleared'
          /\ scene_numbering' = DeleteKey(scene_numbering, call'.indexer_id, call'.season,
                                          call'.episode)]_vars

(***************************************************************************)
(* C9: a public function called with a required identifier None performs   *)
(* no remote request and changes no row of the three tables;               *)
(* get_scene_numbering and get_indexer_numbering return the input pair,    *)
(* set_scene_numbering does nothing, and the show and season dumps return  *)
(* an empty dict.                                                          *)
(***************************************************************************)
\* The call that has just returned had a required identifier None.
CalledWithNone ==
    /\ call # NoCall
    /\ ~Called(call.op)

C9_NoneIsNoOp ==
    [][(call = NoCall /\ CalledWithNone')
       => /\ UNCHANGED <<scene_numbering, xem_numbering, xem_refresh>>
          /\ refresh' = NoRefresh
          /\ call'.op = "get_scene_numbering" => ret' = <<call'.season, call'.episode>>
          /\ call'.op = "get_indexer_numbering"
                => ret' = <<call'.sceneSeason, call'.sceneEpisode>>
          /\ call'.op \in {"get_scene_numbering_for_show", "get_xem_numbering_for_show",
                            "get_xem_numbering_for_season"}
                => ret' = EmptyDict]_vars

\* set_scene_numbering has returned from a call with the season None and
\* both scene values given, on a show that is stale and has records.
C9_Witness ==
    /\ call.op = "set_scene_numbering"
    /\ call.indexer_id # None /\ call.season = None /\ call.episode # None
    /\ call.sceneSeason # None /\ call.sceneEpisode # None
    /\ SelectShow(xem_numbering, call.indexer_id) # {}
    /\ _xem_refresh_needed(xem_refresh, call.indexer_id, now)

(***************************************************************************)
(* C6: a show with no Refresh Marker is STALE; a refresh that obtains a    *)
(* response sets the show's marker to the current time; every cache query  *)
(* for the show issued no more than 86400 seconds after the marker time    *)
(* performs no remote fetch, and a query issued more than 86400 seconds    *)
(* after it does fetch.                                                    *)
(***************************************************************************)
XemQueries ==
    {"find_xem_numbering", "get_indexer_numbering_for_xem", "get_xem_numbering_for_show",
     "get_xem_numbering_for_season"}

\* The call that has just returned is a cache query with no argument None.
CacheQuery == call.op \in XemQueries /\ Called(call.op)

\* The Refresh Marker rows of a show.
MarkerOf(xr, indexer_id) == {m \in xr : m.indexer_id = indexer_id}

C6_FreshForADay ==
    [][(call = NoCall /\ CacheQuery')
       => LET s == call'.indexer_id
          IN /\ MarkerOf(xem_refresh, s) = {}
                   => /\ _xem_refresh_needed(xem_refresh, s, now)
                      /\ refresh'.gets >= 1
             /\ refresh'.outcome \in {"success", "failure"}
                   => MarkerOf(xem_refresh', s)
                         = {[indexer_id |-> s, last_refreshed |-> now]}
             /\ \A m \in MarkerOf(xem_refresh, s) :
                   IF now - m.last_refreshed <= DayTicks
                   THEN refresh'.gets = 0
                   ELSE refresh'.gets >= 1]_vars

(***************************************************************************)
(* C7: when the remote fetch in a refresh of show s fails with a network   *)
(* error, the query that ran the refresh returns, every Remote Mapping     *)
(* Record is as it was before the refresh, the Refresh Marker of s is      *)
(* unchanged (absent stays absent), s is still STALE and the next cache    *)
(* query issues a request again.                                           *)
(***************************************************************************)
C7_NetworkErrorKeepsCache ==
    [][(call = NoCall /\ refresh'.outcome = "neterror")
       => /\ call'.op \in XemQueries
          /\ refresh'.gets \in {1, 2}
          /\ xem_numbering' = xem_numbering
          /\ xem_refresh' = xem_refresh
          /\ _xem_refresh_needed(xem_refresh', call'.indexer_id, now')
          /\ \A e \in Plain :
                find_xem_numbering(xem_numbering', xem_refresh', call'.indexer_id, 1, 1,
                                   e[1], e[2], now').gets >= 1]_vars

\* A refresh of a show that has cached rows and an old marker has met a
\* network error.
C7_Witness ==
    /\ refresh.outcome = "neterror"
    /\ SelectShow(xem_numbering, call.indexer_id) # {}
    /\ MarkerOf(xem_refresh, call.indexer_id) # {}
    /\ \A m \in MarkerOf(xem_refresh, call.indexer_id) : m.last_refreshed < now

(***************************************************************************)
(* C8: after a refresh of show s whose response signals success and whose  *)
(* entries have pairwise distinct indexer (season, episode) keys, the      *)
(* remote cache table is the table before the refresh with all rows of s   *)
(* removed and exactly one row per payload entry added for s; the rows and *)
(* markers of every other show are unchanged.                              *)
(***************************************************************************)
\* The entries of a payload have pairwise distinct indexer keys.
DistinctKeys(data) ==
    /\ \A i \in 1..Len(data) : data[i].tvdb # Absent
    /\ \A i, j \in 1..Len(data) : i # j => data[i].tvdb # data[j].tvdb

\* The rows and the markers of the shows other than indexer_id.
Others(table, indexer_id) == {r \in table : r.indexer_id # indexer_id}

C8_OneRowPerEntry ==
    [][(call = NoCall /\ refresh'.outcome = "success" /\ DistinctKeys(refresh'.data))
       => LET s == call'.indexer_id
              data == refresh'.data
              rows == SelectShow(xem_numbering', s)
          IN /\ Others(xem_numbering', s) = Others(xem_numbering, s)
             /\ Others(xem_refresh', s) = Others(xem_refresh, s)
             /\ Cardinality(rows) = Len(data)
             /\ \A i \in 1..Len(data) :
                   \E r \in rows : /\ <<r.season, r.episode>> = data[i].tvdb
                                   /\ ScenePair(r) \in {data[i].scene, data[i].scene_2}]_vars

\* The entries of a payload that carry a mapping, and the mapping of one
\* that carries a single one.
Mapped(data) ==
    {data[i] : i \in {j \in 1..Len(data) : data[j].scene # Absent \/ data[j].scene_2 # Absent}}

Mapping(entry) == IF entry.scene # Absent THEN entry.scene ELSE entry.scene_2

\* No entry of the payload carries both 'scene' and 'scene_2'.
NoDoubles(data) ==
    \A i \in 1..Len(data) : data[i].scene = Absent \/ data[i].scene_2 = Absent

(***************************************************************************)
(* C8, amended: after a refresh of show s whose response signals success   *)
(* and whose entries each have a 'tvdb' key, pairwise distinct, and at     *)
(* most one of 'scene' and 'scene_2', the remote cache table is the table  *)
(* before the refresh with all rows of s removed and one row added for     *)
(* each entry that carries a mapping, none for an entry that carries       *)
(* neither; the rows and markers of every other show are unchanged.        *)
(***************************************************************************)
C8_OneRowPerMapping ==
    [][(/\ call = NoCall /\ refresh'.outcome = "success"
        /\ DistinctKeys(refresh'.data) /\ NoDoubles(refresh'.data))
       => LET s == call'.indexer_id
              data == refresh'.data
          IN /\ xem_numbering'
                   = Others(xem_numbering, s)
                     \cup {Row(s, e.tvdb[1], e.tvdb[2], Mapping(e)[1], Mapping(e)[2]) :
                              e \in Mapped(data)}
             /\ Cardinality(SelectShow(xem_numbering', s)) = Cardinality(Mapped(data))
             /\ Others(xem_refresh', s) = Others(xem_refresh, s)]_vars

\* A successful refresh has gone through a payload of one entry with
\* 'scene_2' alone and one with no mapping, while another show has rows
\* and a marker.
C8_Witness ==
    /\ refresh.outcome = "success"
    /\ Len(refresh.data) = 2
    /\ DistinctKeys(refresh.data) /\ NoDoubles(refresh.data)
    /\ \E e \in Mapped(refresh.data) : e.scene = Absent
    /\ Cardinality(Mapped(refresh.data)) = 1
    /\ Cardinality(SelectShow(xem_numbering, call.indexer_id)) = 1
    /\ Others(xem_numbering, call.indexer_id) # {}
    /\ Others(xem_refresh, call.indexer_id) # {}
    /\ \A m \in MarkerOf(xem_refresh, call.indexer_id) : m.last_refreshed > 0

(***************************************************************************)
(* C10: get_xem_numbering_for_season(s, a) returns a map with the single   *)
(* key a whose value lists the scene seasons of the cached rows of (s, a), *)
(* each scene season once however many episodes of the season map to it,   *)
(* and returns {a: [a]} when the cache holds no row for season a of s.     *)
(***************************************************************************)
C10_SceneSeasonsOnce ==
    Called("get_xem_numbering_for_season")
       => LET rows == {r \in xem_numbering : r.indexer_id = call.indexer_id
                                             /\ r.season = call.season}
              scenes == {r.scene_season : r \in rows}
          IN /\ DOMAIN ret = {call.season}
             /\ IF rows = {}
                THEN ret[call.season] = <<call.season>>
                ELSE /\ {ret[call.season][i] : i \in 1..Len(ret[call.season])} = scenes
                     /\ Len(ret[call.season]) = Cardinality(scenes)

(***************************************************************************)
(* C11: at every point where no refresh is in progress, the Remote Mapping *)
(* Records of each show are either exactly those it had before its most    *)
(* recent refresh attempt or exactly the full set of mappings of that      *)
(* attempt's payload: never a strict part of the payload, never empty      *)
(* because the insert phase stopped midway.                                *)
(***************************************************************************)
\* The mappings an entry carries.
MappingsOf(entry) == {entry.scene, entry.scene_2} \ {Absent}

\* rows is the full set of mappings of a payload for a show, as far as one
\* row per key can hold it: every entry that carries a mapping has a row
\* under its key, and every row is a mapping of an entry.
FullPayload(rows, indexer_id, data) ==
    /\ \A i \in 1..Len(data) :
          MappingsOf(data[i]) # {}
             => \E r \in rows : <<r.season, r.episode>> = data[i].tvdb
    /\ \A r \in rows :
          /\ r.indexer_id = indexer_id
          /\ \E i \in 1..Len(data) : /\ <<r.season, r.episode>> = data[i].tvdb
                                      /\ ScenePair(r) \in MappingsOf(data[i])

C11_OnlyFullyReplaced ==
    [][(call = NoCall /\ call' # NoCall)
       => \A s \in Shows :
             \/ SelectShow(xem_numbering', s) = SelectShow(xem_numbering, s)
             \/ /\ s = call'.indexer_id
                /\ refresh'.outcome \in {"success", "keyerror"}
                /\ FullPayload(SelectShow(xem_numbering', s), s, refresh'.data)]_vars

(***************************************************************************)
(* C13: every refresh attempt of show s in which an HTTP call returns a    *)
(* well-formed response (success, failure, or a well-formed "no data"      *)
(* response such as an empty JSON object or a success with zero entries)   *)
(* updates the Refresh Marker of s to the current time; after it s is      *)
(* FRESH.                                                                  *)
(***************************************************************************)
C13_MarkerOnEveryResponse ==
    [][(call = NoCall /\ refresh'.outcome \in {"success", "failure", "empty"})
       => /\ MarkerOf(xem_refresh', call'.indexer_id)
                = {[indexer_id |-> call'.indexer_id, last_refreshed |-> now]}
          /\ ~_xem_refresh_needed(xem_refresh', call'.indexer_id, now')]_vars

(***************************************************************************)
(* C14: whenever a refresh of show s ends in the exception handler (a      *)
(* request raised, a payload entry or the payload lacks an expected        *)
(* field), the Refresh Marker of s is as before the refresh started, so s  *)
(* stays STALE and the next cache query retries.                           *)
(***************************************************************************)
C14_HandlerKeepsMarker ==
    [][(call = NoCall /\ refresh'.outcome \in {"neterror", "keyerror"})
       => /\ xem_refresh' = xem_refresh
          /\ _xem_refresh_needed(xem_refresh', call'.indexer_id, now')]_vars

(***************************************************************************)
(* C16: in every refresh, whenever the request to the primary endpoint     *)
(* yields no usable data, a request to the secondary endpoint is issued    *)
(* before the refresh is aborted: a refresh that is aborted with the       *)
(* marker untouched has issued two requests.                               *)
(***************************************************************************)
C16_SecondaryBeforeAbort ==
    [][(call = NoCall /\ refresh'.outcome \in {"neterror", "giveup"})
       => refresh'.gets = 2]_vars

(***************************************************************************)
(* C17: when an endpoint answers a refresh of show s with a payload whose  *)
(* result signals failure, the query that ran the refresh returns, every   *)
(* Remote Mapping Record is as before, and the Refresh Marker of s is the  *)
(* current time, so that no query within the next 86400 seconds fetches.   *)
(***************************************************************************)
C17_FailureKeepsRowsSetsMarker ==
    [][(call = NoCall /\ refresh'.outcome = "failure")
       => /\ xem_numbering' = xem_numbering
          /\ MarkerOf(xem_refresh', call'.indexer_id)
                = {[indexer_id |-> call'.indexer_id, last_refreshed |-> now]}
          /\ \A t \in Instants :
                (t >= now /\ t - now <= DayTicks)
                   => ~_xem_refresh_needed(xem_refresh', call'.indexer_id, t)]_vars

(***************************************************************************)
(* C18: there is at most one Override Record per (show, season, episode);  *)
(* after set_scene_numbering(s, a, b, x, y) with x and y not both None     *)
(* exactly one Override Record exists for (s, a, b) and it holds x and y;  *)
(* only a call with both None removes the record.                          *)
(***************************************************************************)
C18_OneRecordPerKey ==
    /\ \A r, q \in scene_numbering :
          (r.indexer_id = q.indexer_id /\ r.season = q.season /\ r.episode = q.episode)
             => r = q
    /\ Called("set_scene_numbering")
          => IF call.sceneSeason = None /\ call.sceneEpisode = None
             THEN OverrideOfCall = {}
             ELSE OverrideOfCall = {Row(call.indexer_id, call.season, call.episode,
                                        call.sceneSeason, call.sceneEpisode)}

(***************************************************************************)
(* C19: find_scene_numbering(s, a, b) with no argument None returns the    *)
(* scene pair of the Override Record of (s, a, b) when one exists and None *)
(* when none exists.                                                       *)
(***************************************************************************)
C19_FindTellsAbsence ==
    Called("find_scene_numbering")
       => IF OverrideOfCall # {}
          THEN \A r \in OverrideOfCall : ret = ScenePair(r)
          ELSE ret = NoneResult

(***************************************************************************)
(* C15: after a refresh of show s with a success payload (its entries with *)
(* pairwise distinct keys) in which an entry carries both 'scene' and      *)
(* 'scene_2' for the key (a, b), the cache holds exactly one row for       *)
(* (s, a, b) and it carries the scene_2 pair; every other entry of the     *)
(* payload that carries a mapping, those after the double entry included,  *)
(* is cached as well.                                                      *)
(***************************************************************************)
\* The entries of a payload that carry both 'scene' and 'scene_2'.
Doubles(data) ==
    {i \in 1..Len(data) : data[i].scene # Absent /\ data[i].scene_2 # Absent}

\* The rows a table holds under the key of an entry.
RowsOfEntry(table, indexer_id, entry) ==
    {r \in table : r.indexer_id = indexer_id /\ <<r.season, r.episode>> = entry.tvdb}

AnswerFrom(xn, c, r) ==
    /\ c.op = "find_xem_numbering"
          => LET rows == SelectKey(xn, c.indexer_id, c.season, c.episode)
             IN IF rows # {} THEN \A q \in rows : r = ScenePair(q) ELSE r = NoneResult
    /\ c.op = "get_indexer_numbering_for_xem"
          => LET rows == SelectScene(xn, c.indexer_id, c.sceneSeason, c.sceneEpisode)
             IN IF rows # {} THEN r \in {<<q.season, q.episode>> : q \in rows}
                ELSE r = <<c.sceneSeason, c.sceneEpisode>>
    /\ c.op = "get_xem_numbering_for_show"
          => LET rows == SelectShow(xn, c.indexer_id)
             IN /\ DOMAIN r = {<<q.season, q.episode>> : q \in rows}
                /\ \A q \in rows : r[<<q.season, q.episode>>] = ScenePair(q)
    /\ c.op = "get_xem_numbering_for_season"
          => LET rows == {q \in xn : q.indexer_id = c.indexer_id /\ q.season = c.season}
             IN /\ DOMAIN r = {c.season}
                /\ {r[c.season][i] : i \in 1..Len(r[c.season])}
                      = IF rows # {} THEN {q.scene_season : q \in rows} ELSE {c.season}

C20_StalenessThenRead ==
    [][(call = NoCall /\ call' # NoCall)
       => /\ CacheQuery'
                => /\ IF _xem_refresh_needed(xem_refresh, call'.indexer_id, now)
                      THEN refresh'.gets \in {1, 2} /\ refresh'.outcome # "none"
                      ELSE /\ refresh' = NoRefresh
                           /\ UNCHANGED <<xem_numbering, xem_refresh>>
                   /\ AnswerFrom(xem_numbering', call', ret')
          /\ call'.op \in {"set_scene_numbering", "get_scene_numbering_for_show"}
                => /\ refresh' = NoRefresh
                   /\ UNCHANGED <<xem_numbering, xem_refresh>>]_vars

\* find_xem_numbering of a STALE show has returned the pair that its own
\* refresh has just cached, at a later day than the show's first refresh.
C20_Witness ==
    /\ Called("find_xem_numbering")
    /\ refresh.outcome = "success" /\ refresh.gets = 2
    /\ Len(refresh.data) = 1
    /\ refresh.data[1].tvdb = <<call.season, call.episode>>
    /\ ret = refresh.data[1].scene
    /\ ret # <<call.season, call.episode>>
    /\ now > 0
    /\ MarkerOf(xem_refresh, call.indexer_id)
          = {[indexer_id |-> call.indexer_id, last_refreshed |-> now]}

(***************************************************************************)
(* C12: with several threads inside find_xem_numbering of the same show,   *)
(* interleaved statement by statement, every SELECT of the show's rows     *)
(* sees a whole mapping: while another thread is between its DELETE and    *)
(* the end of its insert loop, the rows seen are the ones that thread's    *)
(* DELETE found or the ones its payload gives; and whenever no thread is   *)
(* inside that window, the show's rows are the whole mapping of one        *)
(* thread's last payload (no mixture of two payloads, no truncated set).   *)
(***************************************************************************)
C12_ReadersSeeWholeMapping ==
    /\ \A p \in Callers : threads[p].pc = "done" => threads[p].whole
    /\ \A s \in Shows :
          (\A q \in Callers : ~(threads[q].pc = "insert" /\ threads[q].indexer_id = s))
             => SelectShow(xem_numbering, s) \in {SelectShow(threads[q].full, s) : q \in Callers}

====
